---------------------------- MODULE Spec2Model ----------------------------
(***************************************************************************)
(* Case lifecycle flows of dispatch (src/src/dispatch/case/flows.py):      *)
(* the status transition dispatcher, the status flows that stamp the       *)
(* case's timestamps, the two escalation flows that link incidents to a    *)
(* case, and the resource creation flow.                                   *)
(*                                                                         *)
(* A flow is a Python function that mutates a Case and calls collaborators *)
(* (providers, the event log, the database session).  Here a flow is an    *)
(* operator from a run state s to a run state: s.case is the Case,         *)
(* s.trace the sequence of collaborator calls the run made so far,         *)
(* s.raised whether an exception is propagating, s.now the value           *)
(* datetime.utcnow() returns, s.fails the provider operations that raise   *)
(* in this run.                                                            *)
(***************************************************************************)
EXTENDS Naturals, Sequences, FiniteSets

VARIABLES
    case,               \* the Case row: status, timestamps, incidents, resource handles
    next_incident_id,   \* the id the next incident row gets
    next_handle,        \* the external id the next created resource gets
    now,                \* the clock, what datetime.utcnow() returns
    op,                 \* the flow that ran last, with its arguments
    trace,              \* the collaborator calls the last flow made, in order
    raised,             \* whether the last flow ended by raising
    pc,                 \* concurrent flows: each flow's position
    seen,               \* concurrent flows: what each flow's presence check read
    created             \* concurrent flows: the create calls made, in order

vars == <<case, next_incident_id, next_handle, now, op, trace, raised, pc, seen, created>>

---------------------------------------------------------------------------
\* Bounds of the model.
MaxTime == 3
MaxIncidents == 2
MaxHandles == 6

\* None / a falsy column value.
Nil == 0

\* CaseStatus
New == "New"
Triage == "Triage"
Escalated == "Escalated"
Closed == "Closed"
CaseStatus == {New, Triage, Escalated, Closed}

\* Visibility (src/src/dispatch/enums.py)
Open == "Open"
Restricted == "Restricted"

\* The plugin types the flows look up with plugin_service.get_active_instance.
PluginTypes == {"participant", "conversation", "oncall"}

\* E-mail addresses: of an individual, of a case's tactical group, of an
\* incident's tactical group.
Individual(n) == [kind |-> "individual", n |-> n]
GroupEmail(id) == [kind |-> "group", n |-> id]
IncidentGroupEmail(id) == [kind |-> "incident_group", n |-> id]
Assignee == Individual(0)
\* Case.assignee of a case without an assignee.
NoOne == [kind |-> "none", n |-> 0]

---------------------------------------------------------------------------
\* Run-state plumbing.

Range(f) == {f[i] : i \in DOMAIN f}

Log(s, e) == [s EXCEPT !.trace = Append(@, e)]

\* db_session.add(case); db_session.commit()
Commit(s) == Log(s, "commit")

\* A provider call: raises when the provider operation is failing.
Call(s, p) ==
    IF s.raised THEN s
    ELSE IF p \in s.fails THEN [Log(s, p) EXCEPT !.raised = TRUE] ELSE Log(s, p)

\* event_service.log_case_event(...)
LogCaseEvent(s, description) ==
    IF s.raised THEN s ELSE Log(s, "log_case_event:" \o description)

\* Case.tactical_group: the case's group of type tactical, or None.
tactical_group(c) == IF c.groups = <<>> THEN Nil ELSE c.groups[1].id

---------------------------------------------------------------------------
\* Status flows.

case_new_status_flow(s) == s

case_triage_status_flow_Unguarded(s) ==
    IF s.raised THEN s
    ELSE Commit([Log(s, "case_triage_status_flow") EXCEPT !.case.triage_at = s.now])

case_triage_status_flow(s) ==
    LET s1 == Log(s, "case_triage_status_flow")
    IN  IF s.raised THEN s
        ELSE IF s1.case.triage_at = Nil
        THEN Commit([s1 EXCEPT !.case.triage_at = s1.now])
        ELSE s1

\* storage_flows.update_storage(subject=case, add_members, storage_members)
update_storage(s, storage_members) ==
    LET s1 == Call(s, "update_storage")
    IN  IF s1.raised THEN s1
        ELSE [s1 EXCEPT !.case.storage.members = @ \cup storage_members]

\* incident_service.create(...) followed by case.incidents.append(incident),
\* incident_flows.incident_create_flow(...) and the audit record of the link.
LinkNewIncident(s, incident) ==
    LogCaseEvent(
        Log(Log([s EXCEPT !.next_incident_id = @ + 1,
                          !.case.incidents = Append(@, incident)],
                "incident_service.create"),
            "incident_create_flow"),
        "linked")

\* The incident row with the next id; incident_create_flow gives it a
\* tactical group or not.
NewIncident(s) == [id |-> s.next_incident_id, tactical_group |-> s.incident_group]

case_to_incident_escalate_flow_NoLinkedCheck(s) ==
    LET s1 == Log(s, "case_to_incident_escalate_flow")
    IN  IF s.raised THEN s
        ELSE IF ~ s1.case.incident_type THEN s1
        ELSE LinkNewIncident(s1, NewIncident(s1))

case_to_incident_escalate_flow_NoTypeCheck(s) ==
    LET s1 == Log(s, "case_to_incident_escalate_flow")
    IN  IF s.raised THEN s
        ELSE IF s1.case.incidents # <<>> THEN s1
        ELSE LinkNewIncident(s1, NewIncident(s1))

case_to_incident_escalate_flow(s) ==
    LET s1 == Log(s, "case_to_incident_escalate_flow")
        incident == NewIncident(s1)
        s2 == LinkNewIncident(s1, incident)
    IN  IF s.raised THEN s
        ELSE IF s1.case.incidents # <<>> THEN s1
        ELSE IF ~ s1.case.incident_type THEN s1
        ELSE IF s2.case.storage.id # Nil /\ incident.tactical_group
             THEN LogCaseEvent(update_storage(s2, {IncidentGroupEmail(incident.id)}),
                               "storage_shared")
             ELSE s2

case_escalated_status_flow_NoStamp(s) ==
    IF s.raised THEN s
    ELSE case_to_incident_escalate_flow(Log(s, "case_escalated_status_flow"))

case_escalated_status_flow(s) ==
    LET s1 == Log(s, "case_escalated_status_flow")
        s2 == Commit([s1 EXCEPT !.case.escalated_at = s1.now])
    IN  IF s.raised THEN s ELSE case_to_incident_escalate_flow(s2)

case_closed_status_flow(s) ==
    LET s1 == Log(s, "case_closed_status_flow")
    IN  IF s.raised THEN s ELSE Commit([s1 EXCEPT !.case.closed_at = s1.now])

---------------------------------------------------------------------------
\* The dispatcher.

case_status_transition_flow_dispatcher_ClosedFromEscalatedNoop(s, current_status, previous_status) ==
    IF current_status = New THEN s
    ELSE IF current_status = Triage
    THEN IF previous_status = New THEN case_triage_status_flow(s) ELSE s
    ELSE IF current_status = Escalated
    THEN IF previous_status = New
         THEN case_escalated_status_flow(case_triage_status_flow(s))
         ELSE IF previous_status = Triage THEN case_escalated_status_flow(s)
         ELSE s
    ELSE IF current_status = Closed
    THEN IF previous_status = New
         THEN case_closed_status_flow(case_triage_status_flow(s))
         ELSE IF previous_status = Triage THEN case_closed_status_flow(s)
         ELSE s
    ELSE s

case_status_transition_flow_dispatcher_StampOnReverse(s, current_status, previous_status) ==
    IF current_status = New THEN s
    ELSE IF current_status = Triage
    THEN IF previous_status = New THEN case_triage_status_flow(s)
         ELSE IF previous_status = Escalated THEN case_triage_status_flow(s)
         ELSE s
    ELSE IF current_status = Escalated
    THEN IF previous_status = New
         THEN case_escalated_status_flow(case_triage_status_flow(s))
         ELSE IF previous_status = Triage THEN case_escalated_status_flow(s)
         ELSE s
    ELSE IF current_status = Closed
    THEN IF previous_status = New
         THEN case_closed_status_flow(case_triage_status_flow(s))
         ELSE IF previous_status = Triage THEN case_closed_status_flow(s)
         ELSE IF previous_status = Escalated THEN case_closed_status_flow(s)
         ELSE s
    ELSE s

case_status_transition_flow_dispatcher_EscalateBeforeTriage(s, current_status, previous_status) ==
    IF current_status = New THEN s
    ELSE IF current_status = Triage
    THEN IF previous_status = New THEN case_triage_status_flow(s) ELSE s
    ELSE IF current_status = Escalated
    THEN IF previous_status = New
         THEN LET s1 == case_escalated_status_flow(s)
              IN  IF s1.raised THEN s1 ELSE case_triage_status_flow(s1)
         ELSE IF previous_status = Triage THEN case_escalated_status_flow(s)
         ELSE s
    ELSE IF current_status = Closed
    THEN IF previous_status = New
         THEN case_closed_status_flow(case_triage_status_flow(s))
         ELSE IF previous_status = Triage THEN case_closed_status_flow(s)
         ELSE IF previous_status = Escalated THEN case_closed_status_flow(s)
         ELSE s
    ELSE s

case_status_transition_flow_dispatcher(s, current_status, previous_status) ==
    IF current_status = New
    THEN \* Triage -> New, Escalated -> New, Closed -> New: pass
         s
    ELSE IF current_status = Triage
    THEN IF previous_status = New THEN case_triage_status_flow(s)
         ELSE \* Escalated -> Triage, Closed -> Triage: pass
              s
    ELSE IF current_status = Escalated
    THEN IF previous_status = New
         THEN case_escalated_status_flow(case_triage_status_flow(s))
         ELSE IF previous_status = Triage THEN case_escalated_status_flow(s)
         ELSE \* Closed -> Escalated: pass
              s
    ELSE IF current_status = Closed
    THEN IF previous_status = New
         THEN case_closed_status_flow(case_triage_status_flow(s))
         ELSE IF previous_status = Triage THEN case_closed_status_flow(s)
         ELSE IF previous_status = Escalated THEN case_closed_status_flow(s)
         ELSE s
    ELSE s

---------------------------------------------------------------------------
\* The escalation endpoint flow.

\* The incident of the endpoint flow exists already (the caller created it);
\* incident_create_flow returns it, with a tactical group or without.
case_to_incident_endpoint_escalate_flow(s, incident_id) ==
    LET s1 == case_triage_status_flow(Log(s, "case_to_incident_endpoint_escalate_flow"))
        incident == [id |-> incident_id, tactical_group |-> s.incident_group]
        s2 == Log([s1 EXCEPT !.case.escalated_at = s1.now,
                             !.case.status = Escalated],
                  "incident_create_flow")
        s3 == LogCaseEvent(
                  Commit([s2 EXCEPT !.case.incidents = Append(@, incident)]),
                  "linked")
        s4 == IF s3.case.storage.id # Nil /\ incident.tactical_group
              THEN update_storage(s3, {IncidentGroupEmail(incident.id)})
              ELSE s3
    IN  IF s.raised THEN s
        ELSE IF s4.raised THEN s4
        ELSE IF incident.tactical_group
        THEN LogCaseEvent(s4, "storage_shared")
        ELSE \* incident.tactical_group.email on None: AttributeError
             [s4 EXCEPT !.raised = TRUE]

---------------------------------------------------------------------------
\* Participants.

\* participant_service.get_by_case_id_and_email: the index of the first
\* participant of the case with that e-mail, or Nil.
get_by_case_id_and_email(c, email) ==
    IF \E i \in DOMAIN c.participants : c.participants[i].email = email
    THEN CHOOSE i \in DOMAIN c.participants :
             /\ c.participants[i].email = email
             /\ \A j \in DOMAIN c.participants :
                    c.participants[j].email = email => i <= j
    ELSE Nil

\* participant_service.get_by_case_id_and_service_id
get_by_case_id_and_service_id(c, service_id) ==
    \E i \in DOMAIN c.participants : c.participants[i].service = service_id

add_participants_to_conversation(s, participant_emails) ==
    LET s1 == IF s.case.conversation = Nil
              THEN Log(s, "warning:no_conversation") ELSE s
        \* plugin.instance.add_to_thread(case.conversation.channel_id, ...)
        s2 == IF s1.case.conversation = Nil
              THEN [s1 EXCEPT !.raised = TRUE]
              ELSE Call(s1, "add_to_thread")
        s3 == [s2 EXCEPT !.case.conversation_members = @ \cup participant_emails]
    IN  IF s.raised THEN s
        ELSE IF "conversation" \notin s1.plugins
        THEN Log(s1, "warning:no_conversation_plugin")
        ELSE IF s2.raised
        THEN LogCaseEvent([s2 EXCEPT !.raised = FALSE], "add_to_conversation_failed")
        ELSE s3

\* group_flows.update_group(subject=case, group, add_member, group_member)
update_group(s, group_member) ==
    LET s1 == Call(s, "update_group")
    IN  IF s1.raised THEN s1
        ELSE [s1 EXCEPT !.case.groups[1].members = @ \cup {group_member}]

\* participant_flows.add_participant(user_email, case, service_id, role)
add_participant(s, user_email, service_id) ==
    LET s1 == Call(s, "add_participant")
    IN  IF s1.raised THEN s1
        ELSE [s1 EXCEPT !.case.participants =
                            Append(@, [email |-> user_email, active |-> TRUE,
                                       service |-> service_id])]

\* participant_flows.reactivate_participant(user_email, case, service_id)
reactivate_participant(s, user_email) ==
    LET s1 == Call(s, "reactivate_participant")
        i == get_by_case_id_and_email(s.case, user_email)
    IN  IF s1.raised THEN s1
        ELSE [s1 EXCEPT !.case.participants[i].active = TRUE]

\* return participant: the value the flow returns to its caller, the
\* participant's e-mail or NoOne for None.
Return(s, participant) == [s EXCEPT !.returned = participant]

case_add_or_reactivate_participant_flow_NoActiveRolesTest(s, user_email, service_id, add_to_conversation) ==
    LET i == get_by_case_id_and_email(s.case, user_email)
        s1 == IF i # Nil
              THEN IF s.case.status # Closed
                   THEN reactivate_participant(s, user_email)
                   ELSE s
              ELSE add_participant(s, user_email, service_id)
        s2 == IF s1.raised THEN s1
              ELSE IF tactical_group(s1.case) # Nil THEN update_group(s1, user_email)
              ELSE s1
    IN  IF s.raised THEN s
        ELSE IF service_id # 0 /\ get_by_case_id_and_service_id(s.case, service_id)
        THEN Return(s, NoOne)
        ELSE IF s2.raised THEN s2
        ELSE IF s2.case.status # Closed /\ add_to_conversation
        THEN Return(add_participants_to_conversation(s2, {user_email}), user_email)
        ELSE Return(s2, user_email)

\* The flow returns the participant (s.returned is its e-mail) or, at the
\* bare return of the oncall service test, None (NoOne).
case_add_or_reactivate_participant_flow(s, user_email, service_id, add_to_conversation) ==
    LET i == get_by_case_id_and_email(s.case, user_email)
        \* reactivate the participant, or add the participant to the case
        s1 == IF i # Nil
              THEN IF s.case.status # Closed
                   THEN reactivate_participant(s, user_email)
                   ELSE s
              ELSE add_participant(s, user_email, service_id)
        s2 == IF s1.raised THEN s1
              ELSE IF tactical_group(s1.case) # Nil THEN update_group(s1, user_email)
              ELSE s1
    IN  IF s.raised THEN s
        ELSE IF service_id # 0 /\ get_by_case_id_and_service_id(s.case, service_id)
        THEN \* return
             Return(s, NoOne)
        ELSE IF i # Nil /\ s.case.participants[i].active
        THEN \* return participant
             Return(s, user_email)
        ELSE IF s2.raised THEN s2
        ELSE IF s2.case.status # Closed /\ add_to_conversation
        THEN Return(add_participants_to_conversation(s2, {user_email}), user_email)
        ELSE Return(s2, user_email)

---------------------------------------------------------------------------
\* Resource creation.  The flows of the other packages (group_flows,
\* storage_flows, document_flows, ticket_flows, conversation_flows) call
\* their provider and store the handle they get on the case.

\* Case.storage of a case without a storage folder.
NoStorage == [id |-> Nil, members |-> {}]

\* group_flows.create_group(subject=case, group_type=tactical, group_participants)
create_group(s, group_participants) ==
    LET s1 == Call(s, "create_group")
    IN  IF s1.raised THEN s1
        ELSE [s1 EXCEPT !.case.groups =
                            Append(@, [id |-> s1.next_handle,
                                       members |-> group_participants]),
                        !.next_handle = @ + 1]

\* storage_flows.create_storage(subject=case, storage_members)
create_storage(s, storage_members) ==
    LET s1 == Call(s, "create_storage")
    IN  IF s1.raised THEN s1
        ELSE [s1 EXCEPT !.case.storage = [id |-> s1.next_handle,
                                          members |-> storage_members],
                        !.next_handle = @ + 1]

\* document_flows.create_document(subject=case, document_type=case, template)
create_document(s) ==
    LET s1 == Call(s, "create_document")
    IN  IF s1.raised THEN s1
        ELSE [s1 EXCEPT !.case.case_document = s1.next_handle,
                        !.next_handle = @ + 1]

\* document_flows.update_document(document=case.case_document, ...)
update_document(s) == Call(s, "update_document")

\* ticket_flows.update_case_ticket(case)
update_case_ticket(s) == Call(s, "update_case_ticket")

\* conversation_flows.create_case_conversation(case, conversation_target):
\* creates the conversation, or resolves the one the case has.
create_case_conversation(s, conversation_target) ==
    LET s1 == Call(s, "create_case_conversation")
    IN  IF s1.raised \/ s1.case.conversation # Nil THEN s1
        ELSE [s1 EXCEPT !.case.conversation = s1.next_handle,
                        !.next_handle = @ + 1]

\* conversation_flows.add_case_participants(case, participant_emails)
add_case_participants(s, participant_emails) ==
    LET s1 == Call(s, "add_case_participants")
    IN  IF s1.raised THEN s1
        ELSE [s1 EXCEPT !.case.conversation_members = @ \cup participant_emails]

\* The members the storage folder is created with: the tactical group if
\* the case has one, the direct participants if not.
StorageMembers(c, direct_participant_emails) ==
    IF tactical_group(c) # Nil THEN {GroupEmail(tactical_group(c))}
    ELSE direct_participant_emails

RECURSIVE AddSuggestedParticipants_PushEach(_, _)
AddSuggestedParticipants_PushEach(s, emails) ==
    IF emails = <<>> THEN s
    ELSE AddSuggestedParticipants_PushEach(
             case_add_or_reactivate_participant_flow(s, Head(emails), 0, TRUE),
             Tail(emails))

RECURSIVE AddSuggestedParticipants(_, _)
\* for email in individual_participants:
\*     case_add_or_reactivate_participant_flow(..., add_to_conversation=False)
AddSuggestedParticipants(s, emails) ==
    IF emails = <<>> THEN s
    ELSE AddSuggestedParticipants(
             case_add_or_reactivate_participant_flow(s, Head(emails), 0, FALSE),
             Tail(emails))

CreateConversationAndAddParticipants_NoCatch(s, individual_participants, conversation_target) ==
    LET s1 == LogCaseEvent(create_case_conversation(s, conversation_target),
                           "conversation_added")
        s2 == AddSuggestedParticipants(s1, individual_participants)
        s3 == IF s2.raised \/ s2.case.assignee # NoOne THEN s2
              ELSE [s2 EXCEPT !.raised = TRUE]
        all_participants == Range(individual_participants) \cup {s.case.assignee}
    IN  IF s.raised THEN s
        ELSE LogCaseEvent(add_case_participants(s3, all_participants),
                          "participants_added")

\* The try block of case_create_resources_flow: the conversation is created,
\* the suggested participants are added to the case and pushed to the
\* conversation in one call; an exception is logged and swallowed.
CreateConversationAndAddParticipants(s, individual_participants, conversation_target) ==
    LET s1 == LogCaseEvent(create_case_conversation(s, conversation_target),
                           "conversation_added")
        s2 == AddSuggestedParticipants(s1, individual_participants)
        \* case.assignee.individual.email on None: AttributeError
        s3 == IF s2.raised \/ s2.case.assignee # NoOne THEN s2
              ELSE [s2 EXCEPT !.raised = TRUE]
        all_participants == Range(individual_participants) \cup {s.case.assignee}
        s4 == LogCaseEvent(add_case_participants(s3, all_participants),
                           "participants_added")
    IN  IF s.raised THEN s
        ELSE IF s4.raised
        THEN LogCaseEvent([s4 EXCEPT !.raised = FALSE], "conversation_failed")
        ELSE s4

\* The condition under which get_case_participants asks the participant
\* plugin: the case is open and a participant plugin is active.
ParticipantsResolved(s) ==
    s.case.visibility = Open /\ "participant" \in s.plugins

\* get_case_participants: the plugin call and its audit record.
get_case_participants(s) ==
    IF s.raised \/ ~ ParticipantsResolved(s) THEN s
    ELSE LogCaseEvent(Call(s, "participant.get"), "participants_resolved")

\* get_case_participants: the individual contacts and the team contacts it
\* returns, [] when the plugin was not asked.
individual_contacts(s) == IF ParticipantsResolved(s) THEN s.contacts ELSE <<>>
team_contacts(s) == IF ParticipantsResolved(s) THEN s.teams ELSE <<>>

case_create_resources_flow_NoPresenceChecks(s, individual_participants, team_participants, conversation_target, create_resources) ==
    LET ip == IF s.case.assignee # NoOne
              THEN Append(individual_participants, s.case.assignee)
              ELSE individual_participants
        direct_participant_emails == Range(ip)
        s1 == create_group(s, direct_participant_emails \cup Range(team_participants))
        s2 == create_storage(s1, StorageMembers(s1.case, direct_participant_emails))
        s4 == update_case_ticket(update_document(create_document(s2)))
        s5 == IF create_resources THEN s4 ELSE s
    IN  IF s.raised THEN s
        ELSE IF s5.raised THEN s5
        ELSE CreateConversationAndAddParticipants(s5, ip, conversation_target)

case_create_resources_flow_ConversationInsideIf(s, individual_participants, team_participants, conversation_target, create_resources) ==
    LET ip == IF s.case.assignee # NoOne
              THEN Append(individual_participants, s.case.assignee)
              ELSE individual_participants
        direct_participant_emails == Range(ip)
        s1 == IF s.case.groups = <<>>
              THEN create_group(s, direct_participant_emails
                                       \cup Range(team_participants))
              ELSE s
        s2 == IF s1.raised THEN s1
              ELSE IF s1.case.storage.id = Nil
              THEN create_storage(s1, StorageMembers(s1.case, direct_participant_emails))
              ELSE s1
        s3 == IF s2.raised THEN s2
              ELSE IF s2.case.case_document = Nil THEN create_document(s2)
              ELSE s2
        s4 == update_case_ticket(update_document(s3))
    IN  IF s.raised \/ ~ create_resources THEN s
        ELSE IF s4.raised THEN s4
        ELSE CreateConversationAndAddParticipants(s4, ip, conversation_target)

case_create_resources_flow_StorageBeforeGroup(s, individual_participants, team_participants, conversation_target, create_resources) ==
    LET ip == IF s.case.assignee # NoOne
              THEN Append(individual_participants, s.case.assignee)
              ELSE individual_participants
        direct_participant_emails == Range(ip)
        s1 == IF s.case.storage.id = Nil
              THEN create_storage(s, StorageMembers(s.case, direct_participant_emails))
              ELSE s
        s2 == IF s1.raised THEN s1
              ELSE IF s1.case.groups = <<>>
              THEN create_group(s1, direct_participant_emails
                                        \cup Range(team_participants))
              ELSE s1
        s3 == IF s2.raised THEN s2
              ELSE IF s2.case.case_document = Nil THEN create_document(s2)
              ELSE s2
        s4 == update_case_ticket(update_document(s3))
        s5 == IF create_resources THEN s4 ELSE s
    IN  IF s.raised THEN s
        ELSE IF s5.raised THEN s5
        ELSE CreateConversationAndAddParticipants(s5, ip, conversation_target)

case_create_resources_flow(s, individual_participants, team_participants, conversation_target, create_resources) ==
    LET \* if case.assignee: individual_participants.append(...)
        ip == IF s.case.assignee # NoOne
              THEN Append(individual_participants, s.case.assignee)
              ELSE individual_participants
        direct_participant_emails == Range(ip)
        indirect_participant_emails == Range(team_participants)
        s1 == IF s.case.groups = <<>>
              THEN create_group(s, direct_participant_emails
                                       \cup indirect_participant_emails)
              ELSE s
        s2 == IF s1.raised THEN s1
              ELSE IF s1.case.storage.id = Nil
              THEN create_storage(s1, StorageMembers(s1.case, direct_participant_emails))
              ELSE s1
        s3 == IF s2.raised THEN s2
              ELSE IF s2.case.case_document = Nil THEN create_document(s2)
              ELSE s2
        s4 == update_case_ticket(update_document(s3))
        s5 == IF create_resources THEN s4 ELSE s
    IN  IF s.raised THEN s
        ELSE IF s5.raised THEN s5
        ELSE CreateConversationAndAddParticipants(s5, ip, conversation_target)

\* ticket_flows.create_case_ticket(case)
create_case_ticket(s) ==
    LET s1 == Call(s, "create_case_ticket")
    IN  IF s1.raised THEN s1
        ELSE [s1 EXCEPT !.case.ticket = s1.next_handle, !.next_handle = @ + 1]

\* The paging block of case_new_create_flow: if case.case_priority.page_assignee
PageAssignee(s, service_id) ==
    IF s.raised \/ ~ s.case.page_assignee THEN s
    ELSE IF service_id = 0
    THEN IF s.case.oncall_service # Nil
         THEN \* service_id = case.case_type.oncall_service.external_id
              s
         ELSE Log(s, "warning:no_oncall_service")
    ELSE IF "oncall" \in s.plugins THEN Call(s, "page")
    ELSE Log(s, "warning:no_oncall_plugin")

case_new_create_flow(s, conversation_target, service_id, create_resources) ==
    LET s1 == create_case_ticket(s)
        s2 == get_case_participants(s1)
        s3 == case_create_resources_flow(s2, individual_contacts(s1), team_contacts(s1),
                                         conversation_target, create_resources)
        \* we still want to update the ticket, but not twice
        s4 == IF create_resources THEN s3 ELSE update_case_ticket(s3)
        s5 == PageAssignee(s4, service_id)
    IN  IF s.raised THEN s
        ELSE IF s5.raised THEN s5
        ELSE Commit(s5)

---------------------------------------------------------------------------
\* Deletion.

\* ticket_flows.delete_ticket(ticket=case.ticket, ...)
delete_ticket(s) ==
    LET s1 == Call(s, "delete_ticket")
    IN  IF s1.raised THEN s1 ELSE [s1 EXCEPT !.case.ticket = Nil]

\* group_flows.delete_group(group=group, ...)
delete_group(s, group) ==
    LET s1 == Call(s, "delete_group")
    IN  IF s1.raised THEN s1
        ELSE [s1 EXCEPT !.case.groups = SelectSeq(@, LAMBDA g : g.id # group.id)]

\* storage_flows.delete_storage(storage=case.storage, ...)
delete_storage(s) ==
    LET s1 == Call(s, "delete_storage")
    IN  IF s1.raised THEN s1 ELSE [s1 EXCEPT !.case.storage = NoStorage]

RECURSIVE DeleteGroups(_, _)
\* for group in case.groups: group_flows.delete_group(...)
DeleteGroups(s, groups) ==
    IF groups = <<>> \/ s.raised THEN s
    ELSE DeleteGroups(delete_group(s, Head(groups)), Tail(groups))

case_delete_flow(s) ==
    LET s1 == IF s.case.ticket # Nil THEN delete_ticket(s) ELSE s
        s2 == IF s1.case.groups # <<>> THEN DeleteGroups(s1, s1.case.groups) ELSE s1
        s3 == IF s2.raised THEN s2
              ELSE IF s2.case.storage.id # Nil THEN delete_storage(s2)
              ELSE s2
    IN  IF s.raised THEN s ELSE s3

---------------------------------------------------------------------------
\* The lifecycle specification: status updates routed through the
\* dispatcher, the status flows, and the two escalation flows, run one at a
\* time on one case.

\* The resource handles of a case that case_new_create_flow provisioned.
Provisioned ==
    [ticket |-> 1,
     groups |-> <<[id |-> 2, members |-> {Assignee}]>>,
     storage |-> [id |-> 3, members |-> {GroupEmail(2)}],
     case_document |-> 4,
     conversation |-> 5]

\* The resource handles of a case created with create_resources = False.
RecordOnly ==
    [ticket |-> 1, groups |-> <<>>, storage |-> NoStorage, case_document |-> Nil,
     conversation |-> Nil]

NewCase(incident_type, handles) ==
    [status |-> New, triage_at |-> Nil, escalated_at |-> Nil, closed_at |-> Nil,
     incidents |-> <<>>, incident_type |-> incident_type,
     visibility |-> Open, assignee |-> Assignee, participants |-> <<>>,
     page_assignee |-> FALSE, oncall_service |-> Nil, conversation_members |-> {},
     plugins |-> PluginTypes, contacts |-> <<>>,
     ticket |-> handles.ticket, groups |-> handles.groups,
     storage |-> handles.storage, case_document |-> handles.case_document,
     conversation |-> handles.conversation]

NoOp == [name |-> "init", current_status |-> New, previous_status |-> New]

Init ==
    /\ \E incident_type \in BOOLEAN, handles \in {Provisioned, RecordOnly} :
           case = NewCase(incident_type, handles)
    /\ next_incident_id = 1
    /\ next_handle = 6
    /\ now = 1
    /\ op = NoOp
    /\ trace = <<>>
    /\ raised = FALSE
    /\ pc = <<>>
    /\ seen = <<>>
    /\ created = <<>>

\* The run state a flow starts in: the case as stored, an empty trace, and
\* this run's environment (the failing provider operations, the active
\* plugins, whether incident_create_flow gives the incident a tactical group).
Start(fails, plugins, incident_group) ==
    [case |-> case, trace |-> <<>>, raised |-> FALSE,
     next_incident_id |-> next_incident_id, next_handle |-> next_handle,
     now |-> now, fails |-> fails, plugins |-> plugins,
     incident_group |-> incident_group, returned |-> NoOne]

\* The end of a run: the case and the counters are stored, the run's trace
\* and outcome are kept for inspection.
Finish(s) ==
    /\ s.next_incident_id <= MaxIncidents + 1
    /\ s.next_handle <= MaxHandles + 1
    /\ case' = s.case
    /\ next_incident_id' = s.next_incident_id
    /\ next_handle' = s.next_handle
    /\ trace' = s.trace
    /\ raised' = s.raised
    /\ UNCHANGED <<now, pc, seen, created>>

LifecycleFailSets == {{}, {"update_storage"}}

\* Time passes.
Tick ==
    /\ now < MaxTime
    /\ now' = now + 1
    /\ op' = [NoOp EXCEPT !.name = "tick"]
    /\ trace' = <<>>
    /\ raised' = FALSE
    /\ UNCHANGED <<case, next_incident_id, next_handle, pc, seen, created>>

\* A status update: the case's status is changed to current_status and the
\* dispatcher runs with the status the case had before.
UpdateStatus ==
    \E current_status \in CaseStatus, fails \in LifecycleFailSets, g \in BOOLEAN :
        LET previous_status == case.status
            s0 == Start(fails, PluginTypes, g)
            s1 == [s0 EXCEPT !.case.status = current_status]
        IN  /\ op' = [name |-> "dispatch", current_status |-> current_status,
                       previous_status |-> previous_status]
            /\ Finish(case_status_transition_flow_dispatcher(s1, current_status,
                                                             previous_status))

RunTriageStatusFlow ==
    /\ op' = [NoOp EXCEPT !.name = "case_triage_status_flow"]
    /\ Finish(case_triage_status_flow(Start({}, PluginTypes, FALSE)))

RunEscalatedStatusFlow ==
    \E fails \in LifecycleFailSets, g \in BOOLEAN :
        /\ op' = [NoOp EXCEPT !.name = "case_escalated_status_flow"]
        /\ Finish(case_escalated_status_flow(Start(fails, PluginTypes, g)))

RunClosedStatusFlow ==
    /\ op' = [NoOp EXCEPT !.name = "case_closed_status_flow"]
    /\ Finish(case_closed_status_flow(Start({}, PluginTypes, FALSE)))

RunEscalateFlow ==
    \E fails \in LifecycleFailSets, g \in BOOLEAN :
        /\ op' = [NoOp EXCEPT !.name = "case_to_incident_escalate_flow"]
        /\ Finish(case_to_incident_escalate_flow(Start(fails, PluginTypes, g)))

\* The escalation endpoint: the caller has created the incident, the flow
\* links it.
RunEndpointEscalateFlow ==
    \E fails \in LifecycleFailSets, g \in BOOLEAN :
        LET s0 == Start(fails, PluginTypes, g)
            s1 == [s0 EXCEPT !.next_incident_id = @ + 1]
        IN  /\ op' = [NoOp EXCEPT !.name = "case_to_incident_endpoint_escalate_flow"]
            /\ Finish(case_to_incident_endpoint_escalate_flow(s1, s0.next_incident_id))

Next ==
    \/ Tick
    \/ UpdateStatus
    \/ RunTriageStatusFlow
    \/ RunEscalatedStatusFlow
    \/ RunClosedStatusFlow
    \/ RunEscalateFlow
    \/ RunEndpointEscalateFlow

Spec == Init /\ [][Next]_vars

---------------------------------------------------------------------------
\* The concurrent specification: case_create_resources_flow run by several
\* background tasks on the same case, with create_resources = True.  A flow
\* holds no lock: between its presence check of a resource and the create
\* call that follows, and between any two provider calls, the other flows
\* run.  Each step below is one presence check or one provider call with
\* the store of its result.

NumFlows == 2
Flows == 1 .. NumFlows

ConcInit ==
    /\ \E handles \in {Provisioned, RecordOnly} : case = NewCase(FALSE, handles)
    /\ next_incident_id = 1
    /\ next_handle = 6
    /\ now = 1
    /\ op = NoOp
    /\ trace = <<>>
    /\ raised = FALSE
    /\ pc = [p \in Flows |-> "start"]
    /\ seen = [p \in Flows |-> [individual_participants |-> <<>>,
                                storage_members |-> {}]]
    /\ created = <<>>

\* The run state of one step of a flow.
StepStart(fails) == Start(fails, PluginTypes, FALSE)

\* The end of a step of flow p: its writes are stored; the flow goes on at
\* label next, or ends if the step raised.
StepFinish(p, s, next) ==
    /\ case' = s.case
    /\ next_handle' = s.next_handle
    /\ pc' = [pc EXCEPT ![p] = IF s.raised THEN "raised" ELSE next]
    /\ UNCHANGED <<next_incident_id, now, op, trace, raised>>

\* The record of a create call that returned.
Created(p, s, kind) ==
    created' = IF s.raised THEN created
               ELSE Append(created, [kind |-> kind, flow |-> p])

\* case = get(...); the assignee is appended to the suggested participants.
CR_Start(p) ==
    /\ pc[p] = "start"
    /\ seen' = [seen EXCEPT ![p].individual_participants =
                   IF case.assignee # NoOne THEN Append(@, case.assignee) ELSE @]
    /\ pc' = [pc EXCEPT ![p] = "check_groups"]
    /\ UNCHANGED <<case, next_incident_id, next_handle, now, op, trace, raised, created>>

\* if not case.groups:
CR_CheckGroups(p) ==
    /\ pc[p] = "check_groups"
    /\ pc' = [pc EXCEPT ![p] = IF case.groups = <<>> THEN "create_group"
                               ELSE "check_storage"]
    /\ UNCHANGED <<case, next_incident_id, next_handle, now, op, trace, raised, seen, created>>

\* group_flows.create_group(...)
CR_CreateGroup(p) ==
    /\ pc[p] = "create_group"
    /\ \E fails \in {{}, {"create_group"}} :
           LET s == create_group(StepStart(fails),
                                 Range(seen[p].individual_participants))
           IN  StepFinish(p, s, "check_storage") /\ Created(p, s, "create_group")
    /\ UNCHANGED seen

\* storage_members is computed from case.tactical_group; if not case.storage:
CR_CheckStorage(p) ==
    /\ pc[p] = "check_storage"
    /\ seen' = [seen EXCEPT ![p].storage_members =
                   StorageMembers(case, Range(seen[p].individual_participants))]
    /\ pc' = [pc EXCEPT ![p] = IF case.storage.id = Nil THEN "create_storage"
                               ELSE "check_document"]
    /\ UNCHANGED <<case, next_incident_id, next_handle, now, op, trace, raised, created>>

\* storage_flows.create_storage(...)
CR_CreateStorage(p) ==
    /\ pc[p] = "create_storage"
    /\ \E fails \in {{}, {"create_storage"}} :
           LET s == create_storage(StepStart(fails), seen[p].storage_members)
           IN  StepFinish(p, s, "check_document") /\ Created(p, s, "create_storage")
    /\ UNCHANGED seen

\* if not case.case_document:
CR_CheckDocument(p) ==
    /\ pc[p] = "check_document"
    /\ pc' = [pc EXCEPT ![p] = IF case.case_document = Nil THEN "create_document"
                               ELSE "update_document"]
    /\ UNCHANGED <<case, next_incident_id, next_handle, now, op, trace, raised, seen, created>>

\* document_flows.create_document(...)
CR_CreateDocument(p) ==
    /\ pc[p] = "create_document"
    /\ \E fails \in {{}, {"create_document"}} :
           LET s == create_document(StepStart(fails))
           IN  StepFinish(p, s, "update_document") /\ Created(p, s, "create_document")
    /\ UNCHANGED seen

\* document_flows.update_document(...)
CR_UpdateDocument(p) ==
    /\ pc[p] = "update_document"
    /\ \E fails \in {{}, {"update_document"}} :
           StepFinish(p, update_document(StepStart(fails)), "update_ticket")
    /\ UNCHANGED <<seen, created>>

\* ticket_flows.update_case_ticket(...)
CR_UpdateTicket(p) ==
    /\ pc[p] = "update_ticket"
    /\ \E fails \in {{}, {"update_case_ticket"}} :
           StepFinish(p, update_case_ticket(StepStart(fails)), "conversation")
    /\ UNCHANGED <<seen, created>>

\* The try block: conversation and participants, run here as one step.
CR_Conversation(p) ==
    /\ pc[p] = "conversation"
    /\ \E fails \in {{}, {"create_case_conversation"}} :
           StepFinish(p,
                      CreateConversationAndAddParticipants(
                          StepStart(fails), seen[p].individual_participants, Nil),
                      "done")
    /\ UNCHANGED <<seen, created>>

ConcNext ==
    \E p \in Flows :
        \/ CR_Start(p)
        \/ CR_CheckGroups(p)
        \/ CR_CreateGroup(p)
        \/ CR_CheckStorage(p)
        \/ CR_CreateStorage(p)
        \/ CR_CheckDocument(p)
        \/ CR_CreateDocument(p)
        \/ CR_UpdateDocument(p)
        \/ CR_UpdateTicket(p)
        \/ CR_Conversation(p)

ConcSpec == ConcInit /\ [][ConcNext]_vars

---------------------------------------------------------------------------
\* The concurrent escalation specification: case_escalated_status_flow run
\* by several background tasks on the same case (two status updates into
\* Escalated that both reach the promoter).  No lock is held: between the
\* promoter's test of case.incidents and its creation of the incident the
\* other flows run.

EscInit ==
    /\ \E incident_type \in BOOLEAN, handles \in {Provisioned, RecordOnly} :
           case = [NewCase(incident_type, handles) EXCEPT !.status = Escalated,
                                                          !.triage_at = 1]
    /\ next_incident_id = 1
    /\ next_handle = 6
    /\ now = 1
    /\ op = NoOp
    /\ trace = <<>>
    /\ raised = FALSE
    /\ pc = [p \in Flows |-> "start"]
    /\ seen = [p \in Flows |-> [id |-> Nil, tactical_group |-> FALSE]]
    /\ created = <<>>

\* The end of a step of an escalating flow p.
EscStepFinish(p, s, next) ==
    /\ case' = s.case
    /\ next_incident_id' = s.next_incident_id
    /\ pc' = [pc EXCEPT ![p] = IF s.raised THEN "raised" ELSE next]
    /\ UNCHANGED <<next_handle, now, op, trace, raised>>

\* case.escalated_at = datetime.utcnow(); db_session.commit()
ES_Stamp(p) ==
    /\ pc[p] = "start"
    /\ LET s == StepStart({})
       IN  EscStepFinish(p, Commit([s EXCEPT !.case.escalated_at = s.now]),
                         "check_incidents")
    /\ UNCHANGED <<seen, created>>

\* if case.incidents: return; if not case.case_type.incident_type: return
ES_CheckIncidents(p) ==
    /\ pc[p] = "check_incidents"
    /\ pc' = [pc EXCEPT ![p] = IF case.incidents # <<>> \/ ~ case.incident_type
                               THEN "done" ELSE "create_incident"]
    /\ UNCHANGED <<case, next_incident_id, next_handle, now, op, trace, raised,
                   seen, created>>

\* incident_service.create(...); case.incidents.append(incident);
\* incident_create_flow(...); the audit record of the link.
ES_CreateIncident(p) ==
    /\ pc[p] = "create_incident"
    /\ \E g \in BOOLEAN :
           LET s0 == Start({}, PluginTypes, g)
               incident == NewIncident(s0)
               s == LinkNewIncident(s0, incident)
           IN  /\ EscStepFinish(p, s, "share_storage")
               /\ seen' = [seen EXCEPT ![p] = incident]
               /\ Created(p, s, "incident_service.create")

\* if case.storage and incident.tactical_group: update_storage, audit record
ES_ShareStorage(p) ==
    /\ pc[p] = "share_storage"
    /\ \E fails \in LifecycleFailSets :
           LET s0 == StepStart(fails)
               incident == seen[p]
               s == IF s0.case.storage.id # Nil /\ incident.tactical_group
                    THEN LogCaseEvent(
                             update_storage(s0, {IncidentGroupEmail(incident.id)}),
                             "storage_shared")
                    ELSE s0
           IN  EscStepFinish(p, s, "done")
    /\ UNCHANGED <<seen, created>>

EscNext ==
    \E p \in Flows :
        \/ ES_Stamp(p)
        \/ ES_CheckIncidents(p)
        \/ ES_CreateIncident(p)
        \/ ES_ShareStorage(p)

EscSpec == EscInit /\ [][EscNext]_vars

---------------------------------------------------------------------------
\* The concurrent participant specification:
\* case_add_or_reactivate_participant_flow (a background task) run by several
\* tasks on the same case.  Between the lookup of the participant and the
\* call that adds or reactivates it the other flows run.

\* The e-mails the flows are called with.
ParticipantEmails == {Individual(1), Individual(2)}

\* The oncall service ids the flows are called with; 0 is no service.
ServiceIds == {0, 7}

\* A participant of the case whose roles were all renounced.
Inactive(email) == [email |-> email, active |-> FALSE, service |-> 0]

PartInit ==
    /\ \E status \in {New, Closed}, handles \in {Provisioned, RecordOnly},
          participants \in {<<>>, <<Inactive(Individual(1))>>} :
           case = [NewCase(FALSE, handles) EXCEPT !.status = status,
                                                  !.participants = participants]
    /\ next_incident_id = 1
    /\ next_handle = 6
    /\ now = 1
    /\ op = NoOp
    /\ trace = <<>>
    /\ raised = FALSE
    /\ pc = [p \in Flows |-> "start"]
    /\ seen = [p \in Flows |-> [user_email |-> NoOne, service_id |-> 0,
                                add_to_conversation |-> FALSE]]
    /\ created = <<>>

\* The end of a step of a participant flow p.
PartStepFinish(p, s, next) ==
    /\ case' = s.case
    /\ pc' = [pc EXCEPT ![p] = IF s.raised THEN "raised" ELSE next]
    /\ UNCHANGED <<next_incident_id, next_handle, now, op, trace, raised, seen>>

\* The call, and the test of the oncall service: if service_id: ... return
PA_Start(p) ==
    /\ pc[p] = "start"
    /\ \E user_email \in ParticipantEmails, service_id \in ServiceIds,
          add_to_conversation \in BOOLEAN :
           /\ seen' = [seen EXCEPT ![p] =
                          [user_email |-> user_email, service_id |-> service_id,
                           add_to_conversation |-> add_to_conversation]]
           /\ pc' = [pc EXCEPT ![p] =
                        IF service_id # 0
                           /\ get_by_case_id_and_service_id(case, service_id)
                        THEN "done" ELSE "lookup"]
    /\ UNCHANGED <<case, next_incident_id, next_handle, now, op, trace, raised, created>>

\* participant = get_by_case_id_and_email(...); if participant: ... else: ...
PA_Lookup(p) ==
    /\ pc[p] = "lookup"
    /\ LET i == get_by_case_id_and_email(case, seen[p].user_email)
       IN  pc' = [pc EXCEPT ![p] =
                     IF i = Nil THEN "add_participant"
                     ELSE IF case.participants[i].active THEN "done"
                     ELSE IF case.status # Closed THEN "reactivate_participant"
                     ELSE "update_group"]
    /\ UNCHANGED <<case, next_incident_id, next_handle, now, op, trace, raised,
                   seen, created>>

\* participant_flows.add_participant(...)
PA_AddParticipant(p) ==
    /\ pc[p] = "add_participant"
    /\ \E fails \in {{}, {"add_participant"}} :
           LET s == add_participant(StepStart(fails), seen[p].user_email,
                                    seen[p].service_id)
           IN  PartStepFinish(p, s, "update_group") /\ Created(p, s, "add_participant")

\* participant_flows.reactivate_participant(...)
PA_ReactivateParticipant(p) ==
    /\ pc[p] = "reactivate_participant"
    /\ PartStepFinish(p, reactivate_participant(StepStart({}), seen[p].user_email),
                      "update_group")
    /\ UNCHANGED created

\* if case.tactical_group: group_flows.update_group(...)
PA_UpdateGroup(p) ==
    /\ pc[p] = "update_group"
    /\ \E fails \in {{}, {"update_group"}} :
           LET s0 == StepStart(fails)
           IN  PartStepFinish(p,
                              IF tactical_group(s0.case) # Nil
                              THEN update_group(s0, seen[p].user_email) ELSE s0,
                              "conversation")
    /\ UNCHANGED created

\* if case.status != closed: if add_to_conversation: add_participants_to_conversation
PA_Conversation(p) ==
    /\ pc[p] = "conversation"
    /\ \E fails \in {{}, {"add_to_thread"}}, plugins \in {PluginTypes, {}} :
           LET s0 == Start(fails, plugins, FALSE)
           IN  PartStepFinish(p,
                              IF s0.case.status # Closed /\ seen[p].add_to_conversation
                              THEN add_participants_to_conversation(
                                       s0, {seen[p].user_email})
                              ELSE s0,
                              "done")
    /\ UNCHANGED created

PartNext ==
    \E p \in Flows :
        \/ PA_Start(p)
        \/ PA_Lookup(p)
        \/ PA_AddParticipant(p)
        \/ PA_ReactivateParticipant(p)
        \/ PA_UpdateGroup(p)
        \/ PA_Conversation(p)

PartSpec == PartInit /\ [][PartNext]_vars

---------------------------------------------------------------------------
\* The membership specification: case_add_or_reactivate_participant_flow and
\* add_participants_to_conversation, run one at a time on one case.

\* A participant of the case with an active role, bound to an oncall service
\* or to none (0).
Active(email, service) == [email |-> email, active |-> TRUE, service |-> service]

\* The participants a case starts with.
MemberParticipantSets ==
    {<<>>, <<Inactive(Individual(1))>>, <<Active(Individual(1), 0)>>,
     <<Active(Individual(1), 7)>>}

\* The provider operations of which one may raise in a run.
MemberFailSets == {{}, {"add_to_thread"}, {"update_group"}}

NoCall ==
    [name |-> "init", user_email |-> NoOne, service_id |-> 0,
     add_to_conversation |-> FALSE, fails |-> {}, returned |-> NoOne]

\* A stored case, provisioned or not, with or without a conversation
\* plugin in its project.
MemberInit ==
    /\ \E status \in {New, Closed}, handles \in {Provisioned, RecordOnly},
          participants \in MemberParticipantSets,
          plugins \in {PluginTypes, PluginTypes \ {"conversation"}} :
           case = [NewCase(FALSE, handles) EXCEPT !.status = status,
                                                  !.participants = participants,
                                                  !.plugins = plugins]
    /\ next_incident_id = 1
    /\ next_handle = 6
    /\ now = 1
    /\ op = NoCall
    /\ trace = <<>>
    /\ raised = FALSE
    /\ pc = <<>>
    /\ seen = <<>>
    /\ created = <<>>

RunAddOrReactivateParticipantFlow ==
    \E user_email \in ParticipantEmails, service_id \in ServiceIds,
       add_to_conversation \in BOOLEAN, fails \in MemberFailSets :
        \E s \in {case_add_or_reactivate_participant_flow(
                      Start(fails, case.plugins, FALSE), user_email, service_id,
                      add_to_conversation)} :
            /\ op' = [name |-> "case_add_or_reactivate_participant_flow",
                      user_email |-> user_email, service_id |-> service_id,
                      add_to_conversation |-> add_to_conversation,
                      fails |-> fails, returned |-> s.returned]
            /\ Finish(s)

RunAddParticipantsToConversation ==
    \E user_email \in ParticipantEmails, fails \in {{}, {"add_to_thread"}} :
        \E s \in {add_participants_to_conversation(
                      Start(fails, case.plugins, FALSE), {user_email})} :
            /\ op' = [NoCall EXCEPT !.name = "add_participants_to_conversation",
                                    !.user_email = user_email, !.fails = fails]
            /\ Finish(s)

MemberNext ==
    \/ RunAddOrReactivateParticipantFlow
    \/ RunAddParticipantsToConversation

MemberSpec == MemberInit /\ [][MemberNext]_vars

---------------------------------------------------------------------------
\* The provisioning specification: case_new_create_flow,
\* case_create_resources_flow and case_delete_flow, run one at a time on one
\* case that starts without any resource.

\* The most individual contacts the participant plugin resolves.
MaxParticipants == 2

\* The individual contacts the participant plugin resolves, n of them.
Contacts(n) == [i \in 1 .. n |-> Individual(i)]

\* The e-mail of a team contact.
TeamEmail == [kind |-> "team", n |-> 1]

\* The resource handles of a case that was just stored.
Fresh ==
    [ticket |-> Nil, groups |-> <<>>, storage |-> NoStorage, case_document |-> Nil,
     conversation |-> Nil]

\* The provider operations of which one may raise in a run: one of the
\* resource creations, each call of the conversation step, the paging.
ProvisioningCalls ==
    {"create_storage", "create_case_conversation", "add_participant",
     "update_group", "add_case_participants", "page"}

ProvFailSets == {{}} \cup {{c} : c \in ProvisioningCalls}

\* The failures of a run of the resource creation flow called on its own: a
\* resource creation or the push to the conversation.
RerunFailSets == {{}, {"create_storage"}, {"add_case_participants"}}

DeleteFailSets == {{}, {"delete_ticket"}, {"delete_group"}, {"delete_storage"}}

\* The active plugins of the project.
ProvPluginSets == {PluginTypes, PluginTypes \ {"oncall"}, PluginTypes \ {"participant"}}

NoRun ==
    [name |-> "init", create_resources |-> FALSE, service_id |-> 0, fails |-> {}]

\* A stored case without resources.  The plugins active in the case's
\* project and the individual contacts the participant plugin resolves for
\* the case do not change while the flows run.
ProvInit ==
    /\ \E assignee \in {Assignee, NoOne}, visibility \in {Open, Restricted},
          page_assignee \in BOOLEAN, oncall_service \in {Nil, 8},
          plugins \in ProvPluginSets, n \in {0, MaxParticipants} :
           \* what the flows never read is left at one value
           /\ ~ page_assignee => oncall_service = Nil
           /\ visibility = Restricted => plugins = PluginTypes
           /\ (visibility = Restricted \/ "participant" \notin plugins) => n = 0
           /\ case = [NewCase(FALSE, Fresh) EXCEPT !.assignee = assignee,
                                                   !.visibility = visibility,
                                                   !.page_assignee = page_assignee,
                                                   !.oncall_service = oncall_service,
                                                   !.plugins = plugins,
                                                   !.contacts = Contacts(n)]
    /\ next_incident_id = 1
    /\ next_handle = 1
    /\ now = 1
    /\ op = NoRun
    /\ trace = <<>>
    /\ raised = FALSE
    /\ pc = <<>>
    /\ seen = <<>>
    /\ created = <<>>

\* The run state a provisioning flow starts in.
ProvStart(fails) ==
    [case |-> case, trace |-> <<>>, raised |-> FALSE,
     next_incident_id |-> next_incident_id, next_handle |-> next_handle,
     now |-> now, fails |-> fails, plugins |-> case.plugins,
     incident_group |-> FALSE, contacts |-> case.contacts, teams |-> <<TeamEmail>>,
     returned |-> NoOne]

\* case_delete_flow runs when the case is deleted: no flow runs on the case
\* after it.
Deleting == op.name = "case_delete_flow"

\* The creation flow runs on a case that has no ticket: a case just stored,
\* or one whose creation is tried again after its ticket could not be
\* created.
RunNewCreateFlow ==
    /\ ~ Deleting
    /\ case.ticket = Nil
    /\ \E create_resources \in BOOLEAN, service_id \in ServiceIds,
          fails \in ProvFailSets :
           /\ op' = [name |-> "case_new_create_flow",
                      create_resources |-> create_resources,
                      service_id |-> service_id, fails |-> fails]
           /\ \E s \in {case_new_create_flow(ProvStart(fails), Nil, service_id,
                                             create_resources)} :
                  Finish(s)

\* The resource creation flow called again with the participants resolved
\* for the case.
RunCreateResourcesFlow ==
    /\ ~ Deleting
    /\ \E create_resources \in BOOLEAN, fails \in RerunFailSets :
           LET s0 == get_case_participants(ProvStart(fails))
           IN  /\ op' = [name |-> "case_create_resources_flow",
                          create_resources |-> create_resources,
                          service_id |-> 0, fails |-> fails]
               /\ \E s \in {case_create_resources_flow(
                                  [s0 EXCEPT !.trace = <<>>],
                                  individual_contacts(s0), team_contacts(s0), Nil,
                                  create_resources)} :
                      Finish(s)

RunDeleteFlow ==
    /\ ~ Deleting
    /\ \E fails \in DeleteFailSets :
           /\ op' = [NoRun EXCEPT !.name = "case_delete_flow", !.fails = fails]
           /\ \E s \in {case_delete_flow(ProvStart(fails))} : Finish(s)

ProvNext ==
    \/ RunNewCreateFlow
    \/ RunCreateResourcesFlow
    \/ RunDeleteFlow

ProvSpec == ProvInit /\ [][ProvNext]_vars

---------------------------------------------------------------------------
\* Properties of the lifecycle specification.

StampTriage == "case_triage_status_flow"
StampEscalated == "case_escalated_status_flow"
StampClosed == "case_closed_status_flow"
Promote == "case_to_incident_escalate_flow"

\* The transition table of the dispatcher's contract: the actions listed for
\* a (current, previous) pair, <<>> for a pair the table does not define.
TransitionTable(current_status, previous_status) ==
    IF current_status = Triage /\ previous_status = New THEN <<StampTriage>>
    ELSE IF current_status = Escalated /\ previous_status = New
    THEN <<StampTriage, StampEscalated, Promote>>
    ELSE IF current_status = Escalated /\ previous_status = Triage
    THEN <<StampEscalated, Promote>>
    ELSE IF current_status = Closed /\ previous_status = New
    THEN <<StampTriage, StampClosed>>
    ELSE IF current_status = Closed /\ previous_status \in {Triage, Escalated}
    THEN <<StampClosed>>
    ELSE <<>>

IsTableAction(e) == e \in {StampTriage, StampEscalated, StampClosed, Promote}

\* The table actions a run applied, in order.
ActionsApplied(tr) == SelectSeq(tr, IsTableAction)

\* In a trace, every promotion comes after every stamp, and right after the
\* commit of the escalated stamp.
StampsBeforePromote(tr) ==
    \A i \in DOMAIN tr :
        tr[i] = Promote =>
            /\ i > 2
            /\ tr[i - 1] = "commit"
            /\ tr[i - 2] = StampEscalated
            /\ \A j \in DOMAIN tr :
                   tr[j] \in {StampTriage, StampEscalated, StampClosed} => j < i

\* C1: for every (current, previous) pair the transition table defines, the
\* dispatcher applies exactly the listed actions in the listed order, each
\* stamp leaves its timestamp set, and no promotion starts before the stamps
\* of the same dispatch have been applied and committed.
C1_DispatchAppliesListedActionsInOrder ==
    [][op'.name = "dispatch"
         /\ TransitionTable(op'.current_status, op'.previous_status) # <<>>
       => LET listed == TransitionTable(op'.current_status, op'.previous_status)
          IN  /\ op'.previous_status = case.status
              /\ ActionsApplied(trace') = listed
              /\ StampsBeforePromote(trace')
              /\ StampTriage \in Range(listed) =>
                     case'.triage_at = IF case.triage_at = Nil THEN now
                                       ELSE case.triage_at
              /\ StampEscalated \in Range(listed) => case'.escalated_at = now
              /\ StampClosed \in Range(listed) => case'.closed_at = now]_vars

C1_Witness ==
    /\ op.name = "dispatch"
    /\ op.current_status = Escalated
    /\ op.previous_status = New
    /\ ActionsApplied(trace) = <<StampTriage, StampEscalated, Promote>>
    /\ case.triage_at = now
    /\ case.escalated_at = now
    /\ Len(case.incidents) = 1

\* C2: for every (current, previous) pair outside the transition table the
\* dispatcher ends without raising, makes no provider call and no commit, and
\* leaves the timestamps, the linked incidents and the resource handles as
\* they were.
C2_UndefinedPairsHaveNoEffect ==
    [][op'.name = "dispatch"
         /\ TransitionTable(op'.current_status, op'.previous_status) = <<>>
       => /\ trace' = <<>>
          /\ ~ raised'
          /\ case' = [case EXCEPT !.status = op'.current_status]
          /\ next_incident_id' = next_incident_id
          /\ next_handle' = next_handle]_vars

C2_Witness ==
    /\ op.name = "dispatch"
    /\ op.current_status = Escalated
    /\ op.previous_status = Closed
    /\ case.status = Escalated
    /\ case.closed_at # Nil
    /\ trace = <<>>

\* C3 as stated: once the dispatch has run, a case whose status is Escalated
\* has both triage_at and escalated_at set.
C3_EscalatedHasBothStamps ==
    case.status = Escalated => case.triage_at # Nil /\ case.escalated_at # Nil

\* C3 amended: a case whose status is Escalated has triage_at set, and has
\* escalated_at set unless it was closed before (Closed -> Escalated is a
\* no-op of the dispatcher, so a case closed without having been escalated
\* and then set to Escalated has no escalated_at).
C3_EscalatedHasStampsUnlessReopened ==
    case.status = Escalated =>
        /\ case.triage_at # Nil
        /\ case.closed_at = Nil => case.escalated_at # Nil

C3_Witness ==
    /\ op.name = "dispatch"
    /\ op.current_status = Escalated
    /\ op.previous_status = Triage
    /\ case.status = Escalated
    /\ case.closed_at = Nil
    /\ case.triage_at # Nil
    /\ case.escalated_at = now

\* C4: once the dispatch has run, a case whose status is Triage has
\* triage_at set and a case whose status is Closed has closed_at set.
C4_TriageAndClosedHaveTheirStamp ==
    /\ case.status = Triage => case.triage_at # Nil
    /\ case.status = Closed => case.closed_at # Nil

C4_Witness ==
    /\ op.name = "dispatch"
    /\ op.current_status = Closed
    /\ op.previous_status = Escalated
    /\ case.status = Closed
    /\ case.closed_at = now
    /\ case.triage_at # Nil

C6_TriageStampIdempotent ==
    [][op'.name = "case_triage_status_flow" /\ case.triage_at # Nil
       => /\ case' = case
          /\ trace' = <<StampTriage>>
          /\ ~ raised']_vars

C6_Witness ==
    /\ op.name = "case_triage_status_flow"
    /\ trace = <<StampTriage>>
    /\ case.triage_at # Nil
    /\ case.triage_at < now

C8_SecondPromotionCreatesNothing ==
    [][op'.name = "case_to_incident_escalate_flow" /\ case.incidents # <<>>
       => /\ case'.incidents = case.incidents
          /\ next_incident_id' = next_incident_id
          /\ "incident_service.create" \notin Range(trace')
          /\ "incident_create_flow" \notin Range(trace')]_vars

C8_Witness ==
    /\ op.name = "case_to_incident_escalate_flow"
    /\ trace = <<Promote>>
    /\ case.incident_type
    /\ Len(case.incidents) = 1

\* C9 as stated: once a case has a linked incident, the linked incidents
\* never change again.
C9_IncidentsNeverGrowAfterFirstLink ==
    [][case.incidents # <<>> => case'.incidents = case.incidents]_vars

\* C9 amended: once a case has a linked incident, every later escalation
\* through the promoter (dispatched or run directly) leaves the linked
\* incidents as they were; the endpoint escalate flow links its incident
\* unconditionally, appending one incident each time; no incident is ever
\* unlinked.
C9_OnlyEndpointGrowsIncidentsAfterFirstLink ==
    [][case.incidents # <<>> =>
           IF op'.name = "case_to_incident_endpoint_escalate_flow"
           THEN /\ Len(case'.incidents) = Len(case.incidents) + 1
                /\ SubSeq(case'.incidents, 1, Len(case.incidents)) = case.incidents
           ELSE case'.incidents = case.incidents]_vars

C9_Witness ==
    /\ op.name = "dispatch"
    /\ op.current_status = Escalated
    /\ op.previous_status = Triage
    /\ case.incident_type
    /\ Len(case.incidents) = 1
    /\ trace[Len(trace)] = Promote

---------------------------------------------------------------------------
\* Properties of the concurrent specification.

CreatesOf(kind) == {i \in DOMAIN created : created[i].kind = kind}

\* C10: flows run concurrently on the same case never both create a resource
\* of the same kind: group, storage and document are each created at most
\* once.
C10_EachResourceCreatedAtMostOnce ==
    \A kind \in {"create_group", "create_storage", "create_document"} :
        Cardinality(CreatesOf(kind)) <= 1

---------------------------------------------------------------------------
\* Properties of the concurrent escalation specification.

\* C11: flows that escalate the same case concurrently create and link at
\* most one incident in total, in every interleaving of their tests of
\* case.incidents and their incident creations.
C11_ConcurrentEscalationLinksAtMostOne ==
    /\ Len(case.incidents) <= 1
    /\ Cardinality(CreatesOf("incident_service.create")) <= 1

---------------------------------------------------------------------------
\* Properties of the concurrent participant specification.

ParticipantsOf(email) ==
    {i \in DOMAIN case.participants : case.participants[i].email = email}

\* C12: a participant is created at most once per (case, e-mail) pair: in
\* every interleaving of case_add_or_reactivate_participant_flow runs the
\* case holds at most one participant record per e-mail, and exactly one
\* once a run for that e-mail has added or reactivated a participant.
C12_OneParticipantPerEmail ==
    \A email \in ParticipantEmails :
        /\ Cardinality(ParticipantsOf(email)) <= 1
        /\ (\E p \in Flows : /\ pc[p] \in {"update_group", "conversation"}
                              /\ seen[p].user_email = email)
               => Cardinality(ParticipantsOf(email)) = 1

---------------------------------------------------------------------------
\* Properties of the provisioning specification.

\* The number of calls of a collaborator in a trace.
Calls(tr, call) == Cardinality({i \in DOMAIN tr : tr[i] = call})

\* C13: case_delete_flow attempts the deletion of the ticket, of every group
\* and of the storage the case has, also when one of the deletions raises.
C13_TeardownAttemptsEveryDeletion ==
    [][op'.name = "case_delete_flow"
       => /\ case.ticket # Nil => Calls(trace', "delete_ticket") = 1
          /\ Calls(trace', "delete_group") = Len(case.groups)
          /\ case.storage.id # Nil => Calls(trace', "delete_storage") = 1]_vars

\* The case has a group, a storage folder and a document.
HasGroupStorageDocument(c) ==
    c.groups # <<>> /\ c.storage.id # Nil /\ c.case_document # Nil

\* C14: case_create_resources_flow with create_resources = True on a case
\* that has a group, a storage folder and a document calls none of
\* create_group, create_storage, create_document, keeps the three handles,
\* and calls update_document and update_case_ticket once each.
C14_ProvisioningCreatesOnceUpdatesAgain ==
    [][(/\ op'.name = "case_create_resources_flow"
        /\ op'.create_resources
        /\ HasGroupStorageDocument(case))
       => /\ Calls(trace', "create_group") = 0
          /\ Calls(trace', "create_storage") = 0
          /\ Calls(trace', "create_document") = 0
          /\ case'.groups = case.groups
          /\ case'.storage = case.storage
          /\ case'.case_document = case.case_document
          /\ Calls(trace', "update_document") = 1
          /\ Calls(trace', "update_case_ticket") = 1]_vars

C14_Witness ==
    /\ op.name = "case_create_resources_flow"
    /\ op.create_resources
    /\ HasGroupStorageDocument(case)
    /\ Calls(trace, "create_group") = 0
    /\ Calls(trace, "create_storage") = 0
    /\ Calls(trace, "create_document") = 0
    /\ Calls(trace, "update_document") = 1
    /\ Calls(trace, "update_case_ticket") = 1

\* A run of a provisioning flow with create_resources = False.
RecordOnlyRun(o) ==
    /\ o.name \in {"case_new_create_flow", "case_create_resources_flow"}
    /\ ~ o.create_resources

\* C15 as stated: with create_resources = False provisioning only refreshes
\* the ticket: no group, storage, document or conversation is created, no
\* participant is added and no conversation member push is made.
C15_RecordOnlyTouchesOnlyTheTicket ==
    [][RecordOnlyRun(op')
       => /\ Calls(trace', "create_group") = 0
          /\ Calls(trace', "create_storage") = 0
          /\ Calls(trace', "create_document") = 0
          /\ Calls(trace', "create_case_conversation") = 0
          /\ Calls(trace', "add_participant") = 0
          /\ Calls(trace', "add_case_participants") = 0
          /\ case'.conversation = case.conversation
          /\ case'.participants = case.participants]_vars

\* C15 amended: with create_resources = False no group, storage or document
\* is created and the document is not updated; the ticket is updated once,
\* by case_new_create_flow (case_create_resources_flow itself does not touch
\* it); the conversation step still runs: create_case_conversation is called
\* once and, when the case has an assignee and no call of the step raises,
\* the case gets its conversation, the resolved participants are added to
\* the case and pushed to the conversation in one call.
C15_RecordOnlySkipsGroupStorageDocument ==
    [][RecordOnlyRun(op')
       => /\ Calls(trace', "create_group") = 0
          /\ Calls(trace', "create_storage") = 0
          /\ Calls(trace', "create_document") = 0
          /\ Calls(trace', "update_document") = 0
          /\ case'.groups = case.groups
          /\ case'.storage = case.storage
          /\ case'.case_document = case.case_document
          /\ Calls(trace', "update_case_ticket") =
                 IF op'.name = "case_new_create_flow" THEN 1 ELSE 0
          /\ Calls(trace', "create_case_conversation") = 1
          /\ (op'.fails = {} /\ case.assignee # NoOne) =>
                 /\ case'.conversation # Nil
                 /\ Calls(trace', "add_case_participants") = 1
                 /\ \A i \in DOMAIN individual_contacts(ProvStart({})) :
                        get_by_case_id_and_email(
                            case', individual_contacts(ProvStart({}))[i]) # Nil]_vars

C15_Witness ==
    /\ op.name = "case_new_create_flow"
    /\ ~ op.create_resources
    /\ op.fails = {}
    /\ case.groups = <<>>
    /\ case.storage.id = Nil
    /\ case.case_document = Nil
    /\ case.ticket # Nil
    /\ case.conversation # Nil
    /\ Calls(trace, "update_case_ticket") = 1
    /\ Calls(trace, "create_case_conversation") = 1
    /\ Calls(trace, "add_case_participants") = 1
    /\ Len(case.participants) = MaxParticipants + 1

\* The provider calls that create or update a resource of the case.
IsResourceCall(e) ==
    e \in {"create_case_ticket", "create_group", "create_storage", "create_document",
           "update_document", "update_case_ticket", "create_case_conversation"}

\* The order of the provider calls in the provisioning of a new case.
DependencyOrder ==
    <<"create_case_ticket", "create_group", "create_storage", "create_document",
      "update_document", "update_case_ticket", "create_case_conversation">>

\* C16: case_new_create_flow with create_resources = True and no provider
\* failure, on a case with status New and no resource, makes its resource
\* calls in the order ticket, group, storage, document, document update,
\* ticket update, conversation; the storage folder is created with the new
\* group's e-mail as its only member; the case ends with ticket, group,
\* storage, document and conversation.
C16_NewCaseProvisionedInDependencyOrder ==
    [][(/\ op'.name = "case_new_create_flow"
        /\ op'.create_resources
        /\ op'.fails = {}
        /\ case.status = New
        /\ case.ticket = Nil
        /\ case.groups = <<>>
        /\ case.storage.id = Nil
        /\ case.case_document = Nil
        /\ case.conversation = Nil)
       => /\ SelectSeq(trace', IsResourceCall) = DependencyOrder
          /\ ~ raised'
          /\ trace'[Len(trace')] = "commit"
          /\ case'.ticket # Nil
          /\ Len(case'.groups) = 1
          /\ case'.storage.id # Nil
          /\ case'.storage.members = {GroupEmail(case'.groups[1].id)}
          /\ case'.case_document # Nil
          /\ case'.conversation # Nil]_vars

C16_Witness ==
    /\ op.name = "case_new_create_flow"
    /\ op.create_resources
    /\ op.fails = {}
    /\ SelectSeq(trace, IsResourceCall) = DependencyOrder
    /\ Len(case.groups) = 1
    /\ Individual(1) \in case.groups[1].members
    /\ case.storage.members = {GroupEmail(case.groups[1].id)}
    /\ case.conversation # Nil
    /\ case.conversation_members = Range(Contacts(MaxParticipants)) \cup {Assignee}

\* The calls of the conversation step (the try block of
\* case_create_resources_flow).
ConversationStepCalls ==
    {"create_case_conversation", "add_participant", "update_group",
     "add_case_participants"}

\* A provisioning run in which no call outside the conversation step raises.
OnlyConversationStepFails(o) ==
    /\ o.name \in {"case_new_create_flow", "case_create_resources_flow"}
    /\ o.fails \subseteq ConversationStepCalls

\* An exception was raised inside the conversation step of the run: a call
\* of the step that raises was made, or the case has no assignee whose e-mail
\* the step could read.
ConversationStepRaised(o, tr, c) ==
    \/ \E call \in o.fails : Calls(tr, call) > 0
    \/ c.assignee = NoOne

ConversationFailed == "log_case_event:conversation_failed"

\* C17: an exception raised in the conversation step of provisioning (by the
\* conversation creation, by a participant addition of the step or by the
\* bulk push) is caught: the flow does not raise, writes exactly one audit
\* record of the failure, case_new_create_flow still ends with its commit,
\* and the handles of ticket, group, storage and document are as the steps
\* before left them.
C17_ConversationStepIsBestEffort ==
    [][OnlyConversationStepFails(op')
       => /\ ~ raised'
          /\ Calls(trace', ConversationFailed) =
                 IF ConversationStepRaised(op', trace', case) THEN 1 ELSE 0
          /\ op'.name = "case_new_create_flow" =>
                 /\ trace'[Len(trace')] = "commit"
                 /\ case'.ticket # Nil
          /\ op'.create_resources => HasGroupStorageDocument(case')
          /\ case.groups # <<>> => case'.groups[1].id = case.groups[1].id
          /\ case.storage.id # Nil => case'.storage = case.storage
          /\ case.case_document # Nil => case'.case_document = case.case_document]_vars

C17_Witness ==
    /\ op.name = "case_new_create_flow"
    /\ op.create_resources
    /\ op.fails = {"add_case_participants"}
    /\ Calls(trace, "add_case_participants") = 1
    /\ Calls(trace, ConversationFailed) = 1
    /\ ~ raised
    /\ trace[Len(trace)] = "commit"
    /\ HasGroupStorageDocument(case)
    /\ case.conversation # Nil
    /\ case.conversation_members = {}

---------------------------------------------------------------------------
\* Properties of the lifecycle specification: failures of the escalation.

\* C18: when the storage sharing of a promotion fails (update_storage raises
\* after the incident was created and linked), the failure is caught: the
\* flow does not end by raising, the incident stays linked and the failure
\* is recorded.
C18_StorageShareFailureIsCaught ==
    [][(/\ Promote \in Range(trace')
        /\ "update_storage" \in Range(trace'))
       => /\ Len(case'.incidents) = Len(case.incidents) + 1
          /\ ~ raised']_vars

---------------------------------------------------------------------------
\* Properties of the provisioning specification: paging and the
\* conversation push.

\* C19: when the page call of case_new_create_flow raises, the failure is
\* caught: the flow does not end by raising and reaches its final commit.
C19_PagingFailureIsCaught ==
    [][(/\ op'.name = "case_new_create_flow"
        /\ "page" \in Range(trace'))
       => /\ ~ raised'
          /\ trace'[Len(trace')] = "commit"]_vars

\* The last position of a call in a trace, 0 if it is not there.
LastCall(tr, calls) ==
    IF \E i \in DOMAIN tr : tr[i] \in calls
    THEN CHOOSE i \in DOMAIN tr :
             /\ tr[i] \in calls
             /\ \A j \in DOMAIN tr : tr[j] \in calls => j <= i
    ELSE 0

\* C20: in a provisioning run no participant is pushed to the conversation
\* on its own (no add_to_thread call) and at most one add-members call is
\* made; when the case has an assignee and no call of the conversation step
\* raises, exactly one add-members call is made, after every participant
\* was added to the case, and it adds the resolved direct participants and
\* the assignee to the conversation.
C20_ParticipantsPushedInOneBatch ==
    [][op'.name \in {"case_new_create_flow", "case_create_resources_flow"}
       => LET direct == Range(individual_contacts(ProvStart({})))
          IN  /\ Calls(trace', "add_to_thread") = 0
              /\ Calls(trace', "add_case_participants") <= 1
              /\ (/\ case.assignee # NoOne
                  /\ Calls(trace', "create_case_conversation") = 1
                  /\ ~ ConversationStepRaised(op', trace', case))
                 => /\ Calls(trace', "add_case_participants") = 1
                    /\ LastCall(trace', {"add_participant", "reactivate_participant",
                                         "update_group"})
                           < LastCall(trace', {"add_case_participants"})
                    /\ \A email \in direct \cup {case.assignee} :
                           get_by_case_id_and_email(case', email) # Nil
                    /\ case'.conversation_members =
                           case.conversation_members \cup direct
                               \cup {case.assignee}]_vars

C20_Witness ==
    /\ op.name = "case_new_create_flow"
    /\ op.fails = {}
    /\ Calls(trace, "add_participant") = MaxParticipants + 1
    /\ Calls(trace, "add_to_thread") = 0
    /\ Calls(trace, "add_case_participants") = 1
    /\ case.conversation_members = Range(Contacts(MaxParticipants)) \cup {Assignee}


---------------------------------------------------------------------------
\* Properties of the membership specification.

AddOrReactivate == "case_add_or_reactivate_participant_flow"

\* The case has a participant with that e-mail who has an active role.
HasActiveParticipant(c, email) ==
    /\ get_by_case_id_and_email(c, email) # Nil
    /\ c.participants[get_by_case_id_and_email(c, email)].active

\* C21 (as stated): a call of case_add_or_reactivate_participant_flow for an
\* e-mail whose participant has an active role returns that participant,
\* writes nothing and calls no provider.
C21_ActiveParticipantCallReturnsItUnchanged ==
    [][(/\ op'.name = AddOrReactivate
        /\ HasActiveParticipant(case, op'.user_email))
       => /\ case' = case
          /\ trace' = <<>>
          /\ ~ raised'
          /\ op'.returned = op'.user_email]_vars

\* C21 (amended): a call of case_add_or_reactivate_participant_flow for an
\* e-mail whose participant has an active role writes nothing, calls no
\* provider and raises nothing; it returns that participant, except that it
\* returns None when a service id is given and a participant bound to that
\* service exists.
C21_ActiveParticipantCallWritesNothing ==
    [][(/\ op'.name = AddOrReactivate
        /\ HasActiveParticipant(case, op'.user_email))
       => /\ case' = case
          /\ trace' = <<>>
          /\ ~ raised'
          /\ op'.returned =
                 IF /\ op'.service_id # 0
                    /\ get_by_case_id_and_service_id(case, op'.service_id)
                 THEN NoOne ELSE op'.user_email]_vars

C21_Witness ==
    /\ op.name = AddOrReactivate
    /\ HasActiveParticipant(case, op.user_email)
    /\ case.status = New
    /\ op.add_to_conversation
    /\ op.returned = op.user_email
    /\ trace = <<>>


\* A run that pushes a participant to the conversation: a call of
\* add_participants_to_conversation, or a run of the participant flow that
\* reaches its push (open case, add_to_conversation, no early return, no
\* failing call before).
PushRun(o, c) ==
    \/ o.name = "add_participants_to_conversation"
    \/ /\ o.name = AddOrReactivate
       /\ o.add_to_conversation
       /\ c.status # Closed
       /\ "update_group" \notin o.fails
       /\ ~ HasActiveParticipant(c, o.user_email)
       /\ ~ (o.service_id # 0 /\ get_by_case_id_and_service_id(c, o.service_id))

AddToConversationFailed == "log_case_event:add_to_conversation_failed"

\* C22: when a participant is pushed to the conversation of a case that has
\* no conversation, or no conversation plugin is active, the push is skipped
\* with a warning: no add_to_thread call, no error, no failure audit record.
C22_PushWithoutConversationIsSkipped ==
    [][(/\ PushRun(op', case)
        /\ \/ case.conversation = Nil
           \/ "conversation" \notin case.plugins)
       => /\ \/ "warning:no_conversation" \in Range(trace')
             \/ "warning:no_conversation_plugin" \in Range(trace')
          /\ "add_to_thread" \notin Range(trace')
          /\ ~ raised'
          /\ AddToConversationFailed \notin Range(trace')]_vars


---------------------------------------------------------------------------
\* Properties of the lifecycle specification: the audit record of the
\* storage share.

StorageShared == "log_case_event:storage_shared"

EscalationPaths ==
    {"case_to_incident_escalate_flow", "case_to_incident_endpoint_escalate_flow"}

\* C23: in both escalation paths the audit record of the storage share is
\* emitted only when the share was performed (update_storage was called, for
\* which the case has a storage folder and the incident a tactical group);
\* on a case without a storage folder the flow ends without that record and
\* without raising.
C23_ShareRecordOnlyWhenShared ==
    [][op'.name \in EscalationPaths
       => /\ StorageShared \in Range(trace') => "update_storage" \in Range(trace')
          /\ case.storage.id = Nil
             => /\ StorageShared \notin Range(trace')
                /\ ~ raised']_vars


---------------------------------------------------------------------------
\* Properties of the provisioning specification: who is paged.

\* C24: in a run of case_new_create_flow that reaches its paging block (no
\* provider call fails), page is called exactly once when the case's
\* priority has page_assignee set, an oncall plugin is active and a service
\* id is available (passed by the caller or taken from the case type's
\* oncall service); page is never called when page_assignee is unset.
C24_PagedOnceWhenServiceAvailable ==
    [][(/\ op'.name = "case_new_create_flow"
        /\ op'.fails = {})
       => /\ (/\ case.page_assignee
              /\ "oncall" \in case.plugins
              /\ (op'.service_id # 0 \/ case.oncall_service # Nil))
             => Calls(trace', "page") = 1
          /\ ~ case.page_assignee => Calls(trace', "page") = 0]_vars

=============================================================================
